---------------------------- MODULE Spec2Model ----------------------------
(***************************************************************************)
(* Model of consul/consul.go of mesos-consul: the reconciler that registers *)
(* services with Consul agents, keeps an nginx upstream record per service  *)
(* in the key/value store, and sweeps the registration cache.               *)
(*                                                                         *)
(* Strings that the code parses or formats (identifiers, agent addresses,   *)
(* names, keys) are sequences of one-character strings, so that            *)
(* strings.Split, strings.Contains and fmt.Sprintf are computed.           *)
(***************************************************************************)
EXTENDS Integers, Sequences, FiniteSets, TLC

VARIABLES
    agents,        \* Consul.agents: address -> client (Conn) or nil (Nil)
    built,         \* address -> number of clients consulapi.NewClient has built for it
    serviceCache,  \* package variable serviceCache: service id -> cache entry
    catalog,       \* remote: <<agent address, service id>> registered at that agent
    kv,            \* remote: key/value store, key -> value
    status,        \* "running", "fatal" (log.Fatal exited) or "panic"
    pc,            \* position of the reconciliation loop: "register", "sweep", "done"
    todo,          \* identifiers the running Deregister loop has still to visit
    cycle,         \* number of the current reconciliation cycle (saturates at MaxCycle)
    presented,     \* identifiers Register was called with in the current cycle
    prevCached,    \* identifiers that were in the cache when the current cycle began
    deregIssued,   \* identifiers the current sweep issued ServiceDeregister for
    deregFailed,   \* identifiers whose ServiceDeregister failed in the current sweep
    cycleOK,       \* no remote call has failed in the current cycle
    lastOp         \* the last handler step: operation, argument, remote calls it made

vars == <<agents, built, serviceCache, catalog, kv, status, pc, todo, cycle, presented,
          prevCached, deregIssued, deregFailed, cycleOK, lastOp>>

-----------------------------------------------------------------------------
(* Bounds *)

\* cycles are numbered exactly below MaxCycle; the counter stays there afterwards
MaxCycle == 3

-----------------------------------------------------------------------------
(* Strings *)

Colon == ":"
Dash  == "-"

agent1 == <<"a", "g", "e", "n", "t", "1">>
agentA == <<"a", "g", "e", "n", "t", "A">>
web    == <<"w", "e", "b">>

\* strings.Contains(s, c) for a one-character c
Contains(s, c) == \E i \in 1..Len(s) : s[i] = c

\* strings.Split(s, sep) for a one-character sep: always at least one field
RECURSIVE Split(_, _)
Split(s, sep) ==
    IF ~Contains(s, sep) THEN <<s>>
    ELSE LET i == CHOOSE k \in 1..Len(s) :
                      s[k] = sep /\ \A j \in 1..(k - 1) : s[j] # sep
         IN <<SubSeq(s, 1, i - 1)>> \o Split(SubSeq(s, i + 1, Len(s)), sep)

Digit(d) == CASE d = 0 -> "0" [] d = 1 -> "1" [] d = 2 -> "2" [] d = 3 -> "3"
              [] d = 4 -> "4" [] d = 5 -> "5" [] d = 6 -> "6" [] d = 7 -> "7"
              [] d = 8 -> "8" [] d = 9 -> "9"

\* the %d verb of fmt.Sprintf for a non-negative int
RECURSIVE Itoa(_)
Itoa(n) == IF n < 10 THEN <<Digit(n)>> ELSE Itoa(n \div 10) \o <<Digit(n % 10)>>

\* fmt.Sprintf("upstreams/%s/%s:%d", name, agent, port)
UpstreamKey(name, agent, port) ==
    <<"u", "p", "s", "t", "r", "e", "a", "m", "s", "/">> \o name \o <<"/">>
        \o agent \o <<Colon>> \o Itoa(port)

\* the value registerUpstream writes
UpstreamValue == "{\"weight\":1, \"max_fails\":2, \"fail_timeout\":10}"

\* a value some earlier writer left under a key
LeftoverValue == "{\"weight\":5, \"max_fails\":1, \"fail_timeout\":30}"

-----------------------------------------------------------------------------
(* Inputs: the registry.Service values the discovery side may present *)

Svc(id, name, agent, port) == [ID |-> id, Name |-> name, Agent |-> agent, Port |-> port]

\* A and B of the two-cycle scenario, identifiers that carry their agent
SvcA == Svc(<<"A", Colon>> \o agent1, web, agent1, 80)
SvcB == Svc(<<"B", Colon>> \o agent1 \o <<Dash, "1">>, web, agent1, 81)
\* a second task on A's agent and port
SvcC == Svc(<<"C", Colon>> \o agent1, web, agent1, 80)
\* an identifier without ':'
SvcM == Svc(<<"M">>, web, agent1, 81)
\* a service with no agent address
SvcE == Svc(<<"E", Colon>>, web, <<>>, 80)

Services == {SvcA, SvcB, SvcC, SvcM, SvcE}
IDs == {s.ID : s \in Services}
\* the addresses client() may be called with
Addresses == {s.Agent : s \in Services}

-----------------------------------------------------------------------------
(* Maps *)

MapPut(f, k, v) == [x \in DOMAIN f \cup {k} |-> IF x = k THEN v ELSE f[x]]
MapDel(f, k) == [x \in DOMAIN f \ {k} |-> f[x]]
EmptyMap == [x \in {} |-> TRUE]

Conn == "conn"   \* a *consulapi.Client
Nil  == "nil"    \* the nil *consulapi.Client

\* one remote call made by a handler: which call, through which agent's
\* client, on which identifier or key, and whether it returned without error
Call(c, agent, arg, ok) == [call |-> c, agent |-> agent, arg |-> arg, ok |-> ok]

\* what lastOp records of a step; parsed: the agent deRegisterUpstream computed
\* from the identifier in that step, if it computed one
OpParsed(op, arg, calls, parsed) == [op |-> op, arg |-> arg, calls |-> calls, parsed |-> parsed]
Op(op, arg, calls) == OpParsed(op, arg, calls, {})

-----------------------------------------------------------------------------
(* The registration cache (consul/cache.go is not among the sources; these   *)
(* follow section 4.2 of the specification)                                *)

\* newCacheEntry(s, agent): the registration sent to the agent and the agent's
\* address; unmarked at creation.  Of the registration, the sweep reads back
\* ID, Name and Port only.
newCacheEntry(s, agent) == [service |-> s, agent |-> agent, isRegistered |-> FALSE]

\* CacheMark(id): mark the entry; nothing when the id is absent
CacheMark(cache, id) ==
    IF id \in DOMAIN cache
    THEN [cache EXCEPT ![id] = [@ EXCEPT !.isRegistered = TRUE]]
    ELSE cache

\* CacheIsValid(id): the entry was marked since the last sweep
CacheIsValid(cache, id) == cache[id].isRegistered

\* CacheProcessDeregister(id): reset the mark for the next cycle
CacheProcessDeregister(cache, id) ==
    [cache EXCEPT ![id] = [@ EXCEPT !.isRegistered = FALSE]]

-----------------------------------------------------------------------------
(* Connections *)

\* newAgent(address): nil for the empty address, else a client
newAgent(address) == IF address = <<>> THEN Nil ELSE Conn

\* newAgent(address) ends in log.Fatal: consulapi.NewClient returned an error
newAgentFatal(address, connOK) == address # <<>> /\ ~connOK

\* fault variant: the pool is not consulted
SavedNever(pool, address) == FALSE

\* "_, ok := c.agents[address]": a connection for the address is saved
Saved(pool, address) == address \in DOMAIN pool

\* "if _, ok := c.agents[address]; !ok { c.agents[address] = c.newAgent(address) }"
Connect(pool, address) ==
    IF Saved(pool, address) THEN pool ELSE MapPut(pool, address, newAgent(address))

\* the clients built so far, after that statement returned: newAgent builds one
\* with consulapi.NewClient unless the address is empty
Built(count, pool, address) ==
    IF Saved(pool, address) \/ address = <<>> THEN count
    ELSE MapPut(count, address, IF address \in DOMAIN count THEN count[address] + 1 ELSE 1)

\* client(address)
client(address, connOK) ==
    /\ status = "running" /\ pc = "register"
    /\ IF address = <<>>
       THEN UNCHANGED <<agents, built, status>>
       ELSE IF ~Saved(agents, address) /\ newAgentFatal(address, connOK)
       THEN status' = "fatal" /\ UNCHANGED <<agents, built>>
       ELSE /\ agents' = Connect(agents, address)
            /\ built' = Built(built, agents, address)
            /\ UNCHANGED status
    /\ lastOp' = Op("client", address, <<>>)
    /\ UNCHANGED <<serviceCache, catalog, kv, pc, todo, cycle, presented,
                   prevCached, deregIssued, deregFailed, cycleOK>>

-----------------------------------------------------------------------------
(* Register *)

\* fault variant: the cache lookup never finds the entry
CachedNever(id) == FALSE

\* "if _, ok := serviceCache[service.ID]; ok"
Cached(id) == id \in DOMAIN serviceCache

\* fault variant: the found branch returns without marking
RegisterFoundNoMark(cache, id) == cache

\* the found branch: CacheMark(service.ID), return
RegisterFound(cache, id) == CacheMark(cache, id)

\* the registration Register builds: ID, Name, Port of the service
Registration(service) == [ID |-> service.ID, Name |-> service.Name, Port |-> service.Port]

\* fault variant: the error of ServiceRegister is not checked
RegisterErrIgnored(regOK) == FALSE

\* "err := ...ServiceRegister(s); if err != nil { return }"
RegisterErr(regOK) == ~regOK

\* fault variant: a CAS that did not write (the key exists) is reported as failure
registerUpstreamExistsFails(service, store, casOK) ==
    LET hkey == UpstreamKey(service.Name, service.Agent, service.Port)
        work == hkey \notin DOMAIN store
    IN  IF ~casOK \/ ~work
        THEN [kv |-> store, ret |-> FALSE, call |-> Call("CAS", service.Agent, hkey, casOK)]
        ELSE [kv |-> MapPut(store, hkey, UpstreamValue),
              ret |-> TRUE, call |-> Call("CAS", service.Agent, hkey, TRUE)]

\* registerUpstream(service) on key/value store `store`; casOK: the CAS call
\* returned no transport error.  CAS(p, nil) writes only when the key is
\* absent and reports whether it wrote.
registerUpstream(service, store, casOK) ==
    LET hkey == UpstreamKey(service.Name, service.Agent, service.Port)
        work == hkey \notin DOMAIN store
    IN  IF ~casOK
        THEN [kv |-> store, ret |-> FALSE, call |-> Call("CAS", service.Agent, hkey, FALSE)]
        ELSE [kv |-> IF work THEN MapPut(store, hkey, UpstreamValue) ELSE store,
              ret |-> TRUE, call |-> Call("CAS", service.Agent, hkey, TRUE)]

\* fault variant: the result of registerUpstream is not checked
UpstreamErrIgnored(r) == FALSE

\* "if err, ret := c.registerUpstream(service); !ret { return }"
UpstreamErr(r) == ~r.ret

\* fault variant: the new entry is not marked
RegisterInsertUnmarked(cache, service) ==
    MapPut(cache, service.ID, newCacheEntry(Registration(service), service.Agent))

\* "serviceCache[s.ID] = newCacheEntry(s, service.Agent); c.CacheMark(s.ID)"
RegisterInsert(cache, service) ==
    CacheMark(MapPut(cache, service.ID,
                     newCacheEntry(Registration(service), service.Agent)),
              service.ID)

Register(service, connOK, regOK, casOK) ==
    LET id   == service.ID
        pool == Connect(agents, service.Agent)
        reg  == Call("ServiceRegister", service.Agent, id, regOK)
        up   == registerUpstream(service, kv, casOK)
    IN
    /\ status = "running" /\ pc = "register"
    /\ presented' = presented \cup {id}
    /\ UNCHANGED <<pc, todo, cycle, prevCached, deregIssued, deregFailed>>
    /\ IF Cached(id)
       THEN /\ serviceCache' = RegisterFound(serviceCache, id)
            /\ lastOp' = Op("Register", id, <<>>)
            /\ UNCHANGED <<agents, built, catalog, kv, status, cycleOK>>
       ELSE IF ~Saved(agents, service.Agent) /\ newAgentFatal(service.Agent, connOK)
       THEN \* log.Fatal in newAgent: the process exits
            /\ status' = "fatal"
            /\ lastOp' = Op("Register", id, <<>>)
            /\ UNCHANGED <<agents, built, serviceCache, catalog, kv, cycleOK>>
       ELSE IF pool[service.Agent] = Nil
       THEN \* ServiceRegister through the nil client: nil pointer dereference
            /\ agents' = pool
            /\ built' = Built(built, agents, service.Agent)
            /\ status' = "panic"
            /\ lastOp' = Op("Register", id, <<>>)
            /\ UNCHANGED <<serviceCache, catalog, kv, cycleOK>>
       ELSE IF RegisterErr(regOK)
       THEN /\ agents' = pool
            /\ built' = Built(built, agents, service.Agent)
            /\ lastOp' = Op("Register", id, <<reg>>)
            /\ cycleOK' = (cycleOK /\ regOK)
            /\ UNCHANGED <<serviceCache, catalog, kv, status>>
       ELSE /\ agents' = pool
            /\ built' = Built(built, agents, service.Agent)
            /\ catalog' = IF regOK THEN catalog \cup {<<service.Agent, id>>} ELSE catalog
            /\ IF UpstreamErr(up)
               THEN /\ kv' = up.kv
                    /\ UNCHANGED serviceCache
               ELSE /\ kv' = up.kv
                    /\ serviceCache' = RegisterInsert(serviceCache, service)
            /\ lastOp' = Op("Register", id, <<reg, up.call>>)
            /\ cycleOK' = (cycleOK /\ regOK /\ up.call.ok)
            /\ UNCHANGED status

-----------------------------------------------------------------------------
(* Deregister *)

\* deRegisterUpstream indexes agents[1] of strings.Split(service.ID, ":"):
\* with fewer than two fields the index is out of range and the process panics
IndexOutOfRange(id) == Len(Split(id, Colon)) < 2

\* fault variant: the second field is not cut at '-'
ParsedAgentNoCut(id) == Split(id, Colon)[2]

\* the agent deRegisterUpstream computes from the identifier
ParsedAgent(id) ==
    LET agent == Split(id, Colon)[2]
    IN  IF Contains(agent, Dash) THEN Split(agent, Dash)[1] ELSE agent

\* fault variant: the key is computed but never deleted
deRegisterUpstreamNoDelete(service, pool, store, delOK) ==
    IF Len(Split(service.ID, Colon)) < 2
    THEN [panic |-> TRUE, kv |-> store, err |-> FALSE, calls |-> <<>>, agent |-> {}]
    ELSE [panic |-> FALSE, kv |-> store, err |-> FALSE, calls |-> <<>>,
          agent |-> {Split(service.ID, Colon)[2]}]

\* deRegisterUpstream(service) with connection pool `pool` on key/value store
\* `store`; delOK: the Delete call returned no transport error
deRegisterUpstream(service, pool, store, delOK) ==
    IF IndexOutOfRange(service.ID)
    THEN [panic |-> TRUE, kv |-> store, err |-> FALSE, calls |-> <<>>, agent |-> {}]
    ELSE LET agent == ParsedAgent(service.ID)
             hkey  == UpstreamKey(service.Name, agent, service.Port)
         IN  IF agent \notin DOMAIN pool
             THEN [panic |-> FALSE, kv |-> store, err |-> FALSE, calls |-> <<>>,
                   agent |-> {agent}]
             ELSE IF pool[agent] = Nil
             THEN [panic |-> TRUE, kv |-> store, err |-> FALSE, calls |-> <<>>,
                   agent |-> {agent}]
             ELSE IF ~delOK
             THEN [panic |-> FALSE, kv |-> store, err |-> TRUE,
                   calls |-> <<Call("Delete", agent, hkey, FALSE)>>, agent |-> {agent}]
             ELSE [panic |-> FALSE, kv |-> MapDel(store, hkey), err |-> FALSE,
                   calls |-> <<Call("Delete", agent, hkey, TRUE)>>, agent |-> {agent}]

\* fault variant: the error of deregister is not checked
DeregisterErrIgnored(deregOK) == FALSE

\* fault variant: the entry is never deleted from the cache
DeleteEntryKeep(cache, id) == cache

\* "err := c.deregister(b.agent, b.service); if err != nil"
DeregisterErr(deregOK) == ~deregOK

\* "delete(serviceCache, s)"
DeleteEntry(cache, id) == MapDel(cache, id)

\* fault variant: every entry is taken for stale
VisitValidNever(cache, id) == FALSE

\* "if c.CacheIsValid(s)"
VisitValid(cache, id) == CacheIsValid(cache, id)

\* fault variant: the mark of a valid entry is left as it is
ResetMarkSkipped(cache, id) == cache

\* the valid branch: "c.CacheProcessDeregister(s)"
ResetMark(cache, id) == CacheProcessDeregister(cache, id)

\* Deregister() is entered: the range loop starts over the cache
Deregister ==
    /\ status = "running" /\ pc = "register"
    /\ pc' = "sweep"
    /\ todo' = DOMAIN serviceCache
    /\ lastOp' = Op("Deregister", <<>>, <<>>)
    /\ UNCHANGED <<agents, built, serviceCache, catalog, kv, status, cycle, presented,
                   prevCached, deregIssued, deregFailed, cycleOK>>

\* one iteration of the range loop, on entry id (Go visits the entries in an
\* unspecified order)
DeregisterVisit(id, connOK, deregOK, delOK) ==
    LET b     == serviceCache[id]
        pool  == Connect(agents, b.agent)
        dereg == Call("ServiceDeregister", b.agent, b.service.ID, deregOK)
        up    == deRegisterUpstream(b.service, pool, kv, delOK)
    IN
    /\ status = "running" /\ pc = "sweep"
    /\ id \in todo
    /\ todo' = todo \ {id}
    /\ UNCHANGED <<pc, cycle, presented, prevCached>>
    /\ IF VisitValid(serviceCache, id)
       THEN /\ serviceCache' = ResetMark(serviceCache, id)
            /\ lastOp' = Op("visit", id, <<>>)
            /\ UNCHANGED <<agents, built, catalog, kv, status, deregIssued, deregFailed,
                           cycleOK>>
       ELSE IF ~Saved(agents, b.agent) /\ newAgentFatal(b.agent, connOK)
       THEN /\ status' = "fatal"
            /\ lastOp' = Op("visit", id, <<>>)
            /\ UNCHANGED <<agents, built, serviceCache, catalog, kv, deregIssued,
                           deregFailed, cycleOK>>
       ELSE IF pool[b.agent] = Nil
       THEN /\ agents' = pool
            /\ built' = Built(built, agents, b.agent)
            /\ status' = "panic"
            /\ lastOp' = Op("visit", id, <<>>)
            /\ UNCHANGED <<serviceCache, catalog, kv, deregIssued, deregFailed, cycleOK>>
       ELSE /\ agents' = pool
            /\ built' = Built(built, agents, b.agent)
            /\ deregIssued' = deregIssued \cup {id}
            /\ deregFailed' = IF deregOK THEN deregFailed ELSE deregFailed \cup {id}
            /\ catalog' = IF deregOK THEN catalog \ {<<b.agent, b.service.ID>>} ELSE catalog
            /\ IF DeregisterErr(deregOK)
               THEN /\ lastOp' = Op("visit", id, <<dereg>>)
                    /\ cycleOK' = (cycleOK /\ deregOK)
                    /\ UNCHANGED <<serviceCache, kv, status>>
               ELSE IF up.panic
               THEN /\ status' = "panic"
                    /\ lastOp' = OpParsed("visit", id, <<dereg>>, up.agent)
                    /\ cycleOK' = (cycleOK /\ deregOK)
                    /\ UNCHANGED <<serviceCache, kv>>
               ELSE /\ kv' = up.kv
                    /\ serviceCache' = DeleteEntry(serviceCache, id)
                    /\ lastOp' = OpParsed("visit", id, <<dereg>> \o up.calls, up.agent)
                    /\ cycleOK' = (cycleOK /\ deregOK /\ ~up.err)
                    /\ UNCHANGED status

\* the range loop is over: Deregister() returns
DeregisterReturn ==
    /\ status = "running" /\ pc = "sweep"
    /\ todo = {}
    /\ pc' = "done"
    /\ lastOp' = Op("return", <<>>, <<>>)
    /\ UNCHANGED <<agents, built, serviceCache, catalog, kv, status, todo, cycle, presented,
                   prevCached, deregIssued, deregFailed, cycleOK>>

-----------------------------------------------------------------------------
(* The reconciliation loop (the caller, section 5 of the specification):    *)
(* gather the desired services, Register each, Deregister, repeat           *)

NextCycle ==
    /\ status = "running" /\ pc = "done"
    /\ pc' = "register"
    /\ cycle' = IF cycle < MaxCycle THEN cycle + 1 ELSE cycle
    /\ presented' = {}
    /\ prevCached' = DOMAIN serviceCache
    /\ deregIssued' = {}
    /\ deregFailed' = {}
    /\ cycleOK' = TRUE
    /\ lastOp' = Op("cycle", <<>>, <<>>)
    /\ UNCHANGED <<agents, built, serviceCache, catalog, kv, status, todo>>

-----------------------------------------------------------------------------
(* Specification *)

\* New(): an empty pool; the cache starts empty; the key/value store is empty
\* or holds a record an earlier run left under A's key
Init ==
    /\ agents = EmptyMap
    /\ built = EmptyMap
    /\ serviceCache = EmptyMap
    /\ catalog = {}
    /\ kv \in {EmptyMap,
               MapPut(EmptyMap, UpstreamKey(SvcA.Name, SvcA.Agent, SvcA.Port), LeftoverValue)}
    /\ status = "running"
    /\ pc = "register"
    /\ todo = {}
    /\ cycle = 1
    /\ presented = {}
    /\ prevCached = {}
    /\ deregIssued = {}
    /\ deregFailed = {}
    /\ cycleOK = TRUE
    /\ lastOp = Op("New", <<>>, <<>>)

\* the outcomes of a remote call: it returns without error, or with one
Outcomes == BOOLEAN

\* the outcomes of consulapi.NewClient, called only for an address not pooled
NewClientOutcomes(address) ==
    IF Saved(agents, address) \/ address = <<>> THEN {TRUE} ELSE BOOLEAN

ClientStep ==
    \E address \in Addresses : \E connOK \in NewClientOutcomes(address) :
        client(address, connOK)

RegisterOf(desired) ==
    \E service \in desired :
        \E connOK \in NewClientOutcomes(service.Agent), regOK \in Outcomes :
            \E casOK \in (IF regOK THEN Outcomes ELSE {TRUE}) :
                Register(service, connOK, regOK, casOK)

RegisterStep == RegisterOf(Services)

VisitStep ==
    \E id \in todo :
        \E connOK \in NewClientOutcomes(serviceCache[id].agent), deregOK \in Outcomes :
            \E delOK \in (IF deregOK THEN Outcomes ELSE {TRUE}) :
                DeregisterVisit(id, connOK, deregOK, delOK)

Next ==
    \/ ClientStep
    \/ RegisterStep
    \/ Deregister
    \/ VisitStep
    \/ DeregisterReturn
    \/ NextCycle

Spec == Init /\ [][Next]_vars

-----------------------------------------------------------------------------
(* The reconciliation loop under fairness, on two services: the loop keeps    *)
(* running (Deregister is called in every cycle, its range loop advances and *)
(* returns, the next cycle begins) and a ServiceDeregister that is retried   *)
(* in cycle after cycle eventually succeeds                                 *)

LiveServices == {SvcA, SvcB}

LiveNext ==
    \/ RegisterOf(LiveServices)
    \/ Deregister
    \/ VisitStep
    \/ DeregisterReturn
    \/ NextCycle

\* the visit of entry id in which ServiceDeregister returns without error
VisitDeregistered(id) == \E delOK \in BOOLEAN : DeregisterVisit(id, TRUE, TRUE, delOK)

LiveSpec ==
    /\ Init
    /\ [][LiveNext]_vars
    /\ WF_vars(Deregister)
    /\ WF_vars(VisitStep)
    /\ WF_vars(DeregisterReturn)
    /\ WF_vars(NextCycle)
    /\ \A id \in {s.ID : s \in LiveServices} : SF_vars(VisitDeregistered(id))

-----------------------------------------------------------------------------
(* The sweep over one stale entry with an arbitrary identifier.  The initial  *)
(* states are those the reconciler is in at the start of cycle 2 after         *)
(* Register(Svc(id, web, agent1, 80)) succeeded in cycle 1: the entry is       *)
(* cached and unmarked, registered at agent1, its record written.  client()  *)
(* may have pooled the address "a" as well.                                  *)

\* identifiers have at most MaxIdLen characters
MaxIdLen == 4

ExampleId == <<"w", "e", "b", Dash, "1", Colon>> \o agentA \o <<Dash, "3">>

Identifiers ==
    UNION {[1..n -> {"a", Colon, Dash}] : n \in 0..MaxIdLen} \cup {ExampleId}

\* the service presented under identifier id
ParseService(id) == Svc(id, web, agent1, 80)

ParseInit ==
    \E id \in Identifiers, more \in SUBSET {<<"a">>} :
        LET service == ParseService(id) IN
        /\ agents = [address \in {agent1} \cup more |-> newAgent(address)]
        /\ built = [address \in {agent1} \cup more |-> 1]
        /\ serviceCache =
              MapPut(EmptyMap, id, newCacheEntry(Registration(service), service.Agent))
        /\ catalog = {<<service.Agent, id>>}
        /\ kv = registerUpstream(service, EmptyMap, TRUE).kv
        /\ status = "running"
        /\ pc = "register"
        /\ todo = {}
        /\ cycle = 2
        /\ presented = {}
        /\ prevCached = {id}
        /\ deregIssued = {}
        /\ deregFailed = {}
        /\ cycleOK = TRUE
        /\ lastOp = Op("cycle", <<>>, <<>>)

ParseNext ==
    \/ Deregister
    \/ VisitStep
    \/ DeregisterReturn
    \/ NextCycle

ParseSpec == ParseInit /\ [][ParseNext]_vars

-----------------------------------------------------------------------------
(* Properties *)

\* the step is a call of Register with identifier id (every action writes
\* lastOp, so a step that leaves "Register" there is a Register step)
RegisterCalled(id) == lastOp'.op = "Register" /\ lastOp'.arg = id

KeyOf(service) == UpstreamKey(service.Name, service.Agent, service.Port)

\* C1 - Idempotent registration: a Register call for an identifier whose entry
\* is in the cache makes no remote call at all (so no further catalog
\* registration), leaves the catalog and the set of cached identifiers as
\* they are, and the cache holds one entry per identifier, stored under the
\* identifier of its registration.
C1_IdempotentRegistration ==
    [][\A id \in IDs :
          /\ (id \in DOMAIN serviceCache /\ RegisterCalled(id)) =>
                /\ lastOp'.calls = <<>>
                /\ catalog' = catalog
                /\ kv' = kv
                /\ DOMAIN serviceCache' = DOMAIN serviceCache
                /\ serviceCache'[id].service = serviceCache[id].service
          /\ (id \in DOMAIN serviceCache' => serviceCache'[id].service.ID = id)
      ]_vars

\* Register was called for A while A's entry, cached in an earlier cycle, was
\* in the cache
C1_Witness ==
    /\ lastOp = Op("Register", SvcA.ID, <<>>)
    /\ SvcA.ID \in prevCached
    /\ SvcA.ID \in DOMAIN serviceCache
    /\ <<SvcA.Agent, SvcA.ID>> \in catalog

\* C2 - Mark/sweep survival: an identifier that was in the cache when the
\* cycle began and was presented to Register in the cycle is in the cache
\* throughout and after the cycle's sweep, and the sweep issues no
\* ServiceDeregister for it.
C2_MarkSweepSurvival ==
    \A id \in IDs :
        (pc \in {"sweep", "done"} /\ id \in prevCached /\ id \in presented) =>
            /\ id \in DOMAIN serviceCache
            /\ id \notin deregIssued

\* a sweep has returned that removed B and kept the re-presented A
C2_Witness ==
    /\ pc = "done"
    /\ SvcA.ID \in prevCached /\ SvcA.ID \in presented
    /\ SvcA.ID \in DOMAIN serviceCache
    /\ SvcB.ID \in deregIssued /\ SvcB.ID \notin DOMAIN serviceCache

\* C3 - Mark/sweep removal: when Deregister has returned, every identifier
\* that was in the cache when the cycle began and was not presented in the
\* cycle had a ServiceDeregister issued for it, and unless that call failed
\* it is no longer in the cache.
C3_MarkSweepRemoval ==
    \A id \in IDs :
        (pc = "done" /\ id \in prevCached /\ id \notin presented) =>
            /\ id \in deregIssued
            /\ (id \notin deregFailed => id \notin DOMAIN serviceCache)

\* a sweep has returned in which the stale A and C were deregistered and removed
C3_Witness ==
    /\ pc = "done"
    /\ {SvcA.ID, SvcC.ID} \subseteq prevCached \ presented
    /\ {SvcA.ID, SvcC.ID} \subseteq deregIssued \ deregFailed
    /\ {SvcA.ID, SvcC.ID} \cap DOMAIN serviceCache = {}

\* C4 - Deregistration failure retains the entry: an identifier whose
\* ServiceDeregister failed in the sweep stays in the cache, unmarked, until
\* the sweep has returned; the visit that met the failure made no Delete
\* call; and a returned sweep has issued ServiceDeregister for every
\* identifier that was cached when its cycle began (which includes those
\* retained by the sweep before) and was not presented since.
C4_DeregFailureRetains ==
    /\ \A id \in deregFailed :
          /\ id \in DOMAIN serviceCache
          /\ ~serviceCache[id].isRegistered
    /\ (lastOp.op = "visit" /\ lastOp.calls # <<>> /\ ~lastOp.calls[1].ok) =>
          /\ Len(lastOp.calls) = 1
          /\ lastOp.arg \in deregFailed
    /\ \A id \in prevCached \ presented : pc = "done" => id \in deregIssued

\* B's ServiceDeregister failed in a sweep that has returned, and B's record
\* is still in the key/value store
C4_Witness ==
    /\ pc = "done"
    /\ SvcB.ID \in deregFailed
    /\ SvcB.ID \in DOMAIN serviceCache
    /\ KeyOf(SvcB) \in DOMAIN kv

\* C5 - Registration failure leaves no state: a Register call for an
\* identifier not in the cache (that gets a client) starts with a
\* ServiceRegister call for it; when that call fails, no CAS is attempted and
\* the cache, the key/value store and the catalog are unchanged.
C5_RegisterFailureNoState ==
    [][\A id \in IDs :
          (RegisterCalled(id) /\ id \notin DOMAIN serviceCache /\ status' = "running") =>
              /\ lastOp'.calls # <<>>
              /\ lastOp'.calls[1].call = "ServiceRegister"
              /\ lastOp'.calls[1].arg = id
              /\ ~lastOp'.calls[1].ok =>
                    /\ Len(lastOp'.calls) = 1
                    /\ serviceCache' = serviceCache
                    /\ kv' = kv
                    /\ catalog' = catalog
      ]_vars

\* Register(A) ended on a failed ServiceRegister
C5_Witness ==
    /\ lastOp = Op("Register", SvcA.ID,
                   <<Call("ServiceRegister", SvcA.Agent, SvcA.ID, FALSE)>>)
    /\ SvcA.ID \notin DOMAIN serviceCache
    /\ <<SvcA.Agent, SvcA.ID>> \notin catalog

\* C6 - Cached implies both succeeded: an identifier enters the cache only in
\* a Register call for it whose ServiceRegister and whose CAS both returned
\* without error; a Register call whose CAS returned an error leaves the cache
\* as it was.
C6_CachedImpliesBothSucceeded ==
    [][/\ \A id \in IDs :
             (id \notin DOMAIN serviceCache /\ id \in DOMAIN serviceCache') =>
                 /\ RegisterCalled(id)
                 /\ Len(lastOp'.calls) = 2
                 /\ lastOp'.calls[1].call = "ServiceRegister" /\ lastOp'.calls[1].ok
                 /\ lastOp'.calls[2].call = "CAS" /\ lastOp'.calls[2].ok
       /\ (lastOp'.op = "Register" /\ Len(lastOp'.calls) = 2 /\ ~lastOp'.calls[2].ok) =>
             serviceCache' = serviceCache
      ]_vars

\* Register(A) ended on a CAS error: registered in the catalog, not cached
C6_Witness ==
    /\ lastOp.op = "Register" /\ lastOp.arg = SvcA.ID
    /\ Len(lastOp.calls) = 2 /\ lastOp.calls[1].ok /\ ~lastOp.calls[2].ok
    /\ SvcA.ID \notin DOMAIN serviceCache
    /\ <<SvcA.Agent, SvcA.ID>> \in catalog

\* C8 - CAS-exists is not an error: in a Register call that reaches the CAS,
\* a CAS without transport error on a key that exists leaves the key/value
\* store as it was, one on an absent key writes the fixed value, and both end
\* with the entry in the cache, marked; the entry is not inserted exactly when
\* the CAS returned a transport error.
C8_CasExistsIsNotAnError ==
    [][\A s \in Services :
          (RegisterCalled(s.ID) /\ Len(lastOp'.calls) = 2
              /\ lastOp'.calls[2] = Call("CAS", s.Agent, KeyOf(s), lastOp'.calls[2].ok)) =>
              IF lastOp'.calls[2].ok
              THEN /\ kv' = IF KeyOf(s) \in DOMAIN kv THEN kv
                            ELSE MapPut(kv, KeyOf(s), UpstreamValue)
                   /\ s.ID \in DOMAIN serviceCache'
                   /\ serviceCache'[s.ID].isRegistered
              ELSE /\ kv' = kv
                   /\ s.ID \notin DOMAIN serviceCache'
      ]_vars

\* Register(A) succeeded on a key that held another writer's value, which is
\* still there
C8_Witness ==
    /\ lastOp.op = "Register" /\ lastOp.arg = SvcA.ID
    /\ Len(lastOp.calls) = 2 /\ lastOp.calls[2].ok
    /\ kv[KeyOf(SvcA)] = LeftoverValue
    /\ SvcA.ID \in DOMAIN serviceCache /\ serviceCache[SvcA.ID].isRegistered

\* C9 - Two-cycle scenario, with A = SvcA and B = SvcB (both on agent1, ports
\* 80 and 81, identifiers whose second field is their agent): in cycle 1,
\* started from the empty cache, once A and B were presented and no remote call
\* failed, the cache holds exactly A and B, both marked, and both backend
\* records are in the key/value store; in cycle 2, begun with exactly A and B
\* cached, when only A was presented, no remote call failed and Deregister has
\* returned, B is deregistered from the catalog and its backend record is
\* gone, A's registration and backend record are kept, and the cache holds
\* exactly A.
C9_TwoCycleScenario ==
    /\ (cycle = 1 /\ pc = "register" /\ status = "running" /\ cycleOK
           /\ presented = {SvcA.ID, SvcB.ID}) =>
          /\ DOMAIN serviceCache = {SvcA.ID, SvcB.ID}
          /\ serviceCache[SvcA.ID].isRegistered /\ serviceCache[SvcB.ID].isRegistered
          /\ {KeyOf(SvcA), KeyOf(SvcB)} \subseteq DOMAIN kv
          /\ {<<agent1, SvcA.ID>>, <<agent1, SvcB.ID>>} \subseteq catalog
    /\ (cycle = 2 /\ pc = "done" /\ cycleOK
           /\ prevCached = {SvcA.ID, SvcB.ID} /\ presented = {SvcA.ID}) =>
          /\ DOMAIN serviceCache = {SvcA.ID}
          /\ SvcB.ID \in deregIssued
          /\ <<agent1, SvcB.ID>> \notin catalog
          /\ KeyOf(SvcB) \notin DOMAIN kv
          /\ KeyOf(SvcA) \in DOMAIN kv
          /\ <<agent1, SvcA.ID>> \in catalog

\* the end of cycle 2 of the scenario
C9_Witness ==
    /\ cycle = 2 /\ pc = "done" /\ cycleOK
    /\ prevCached = {SvcA.ID, SvcB.ID} /\ presented = {SvcA.ID}
    /\ DOMAIN serviceCache = {SvcA.ID}
    /\ kv = MapPut(EmptyMap, KeyOf(SvcA), UpstreamValue)

\* C7 - Eventual removal: a service that is registered in the catalog when a
\* cycle begins is eventually deregistered from the catalog, unless it is
\* presented to Register again (or the process ends).
C7_EventualRemoval ==
    \A s \in LiveServices :
        (<<s.Agent, s.ID>> \in catalog /\ pc = "register" /\ presented = {}
            /\ status = "running")
        ~> (<<s.Agent, s.ID>> \notin catalog \/ s.ID \in presented \/ status # "running")

\* f is the second ':'-separated field of id
SecondField(id, f) ==
    \E i \in 1..Len(id) : \E j \in (i + 1)..(Len(id) + 1) :
        /\ id[i] = Colon
        /\ \A k \in 1..(j - 1) : k # i => id[k] # Colon
        /\ j = Len(id) + 1 \/ id[j] = Colon
        /\ f = SubSeq(id, i + 1, j - 1)

\* a is f cut at its first '-', or f when it has none
CutAtDash(f, a) ==
    \E n \in 0..Len(f) :
        /\ a = SubSeq(f, 1, n)
        /\ \A k \in 1..n : f[k] # Dash
        /\ n = Len(f) \/ f[n + 1] = Dash

\* C10 - Agent identifier parsing: whenever a visit runs deRegisterUpstream
\* (its ServiceDeregister succeeded) on an identifier that contains ':', it
\* computes an agent, and the agent it computes is the second ':'-separated
\* field of the identifier cut at its first '-'; for web-1:agentA-3 that
\* agent is agentA.
C10_AgentParsing ==
    (lastOp.op = "visit" /\ lastOp.calls # <<>> /\ lastOp.calls[1].ok) =>
          /\ Contains(lastOp.arg, Colon) => lastOp.parsed # {}
          /\ \A a \in lastOp.parsed :
                \E f \in {SubSeq(lastOp.arg, m, n) :
                             m \in 1..(Len(lastOp.arg) + 1), n \in 0..Len(lastOp.arg)} :
                    SecondField(lastOp.arg, f) /\ CutAtDash(f, a)
          /\ lastOp.arg = ExampleId => lastOp.parsed = {agentA}

\* the sweep ran deRegisterUpstream on web-1:agentA-3 and removed the entry
C10_Witness ==
    /\ lastOp.op = "visit" /\ lastOp.arg = ExampleId
    /\ lastOp.parsed = {agentA}
    /\ serviceCache = EmptyMap

\* C11 - No crash except on connection failure: whatever the remote calls
\* return and whatever the stored identifiers, agent addresses, names and
\* ports are, the process never aborts with a panic; the only abnormal end
\* is the log.Fatal of newAgent when a connection cannot be constructed.
C11_NoCrashExceptConnection == status # "panic"

\* C12 - Backend key round trip: when the sweep deregisters an entry, the key
\* it deletes from the key/value store is the key upstreams/<name>/<agent>:<port>
\* that registerUpstream wrote for the entry's service, whatever the
\* identifier is; after a successful deregistration with a successful delete
\* that record is gone.
C12_KeyRoundTrip ==
    (lastOp.op = "visit" /\ lastOp.calls # <<>> /\ lastOp.calls[1].ok) =>
        LET written == KeyOf(ParseService(lastOp.arg)) IN
        /\ \A i \in 1..Len(lastOp.calls) :
              lastOp.calls[i].call = "Delete" => lastOp.calls[i].arg = written
        /\ (Len(lastOp.calls) = 2 /\ lastOp.calls[2].ok) => written \notin DOMAIN kv

\* C13 - Live entries keep their backend record: when Deregister has
\* returned, for every entry in the cache the key/value store holds the record
\* for the entry's (name, agent, port), also when several identifiers share
\* that triple and only some of them were swept.
C13_LiveEntriesKeepRecord ==
    pc = "done" =>
        \A id \in DOMAIN serviceCache :
            UpstreamKey(serviceCache[id].service.Name, serviceCache[id].agent,
                        serviceCache[id].service.Port) \in DOMAIN kv

\* C14 - Cache implies catalog: when Deregister has returned, and until the
\* next one is entered, every identifier in the cache is registered in the
\* catalog at the agent of its entry (only this program changes the catalog).
C14_CacheImpliesCatalog ==
    pc \in {"done", "register"} =>
        \A id \in DOMAIN serviceCache : <<serviceCache[id].agent, id>> \in catalog

\* a sweep returned that kept A and B, both registered, and deregistered C
C14_Witness ==
    /\ pc = "done"
    /\ DOMAIN serviceCache = {SvcA.ID, SvcB.ID}
    /\ deregIssued = {SvcC.ID}
    /\ catalog = {<<SvcA.Agent, SvcA.ID>>, <<SvcB.Agent, SvcB.ID>>}

\* C15 - Deregistration ordering: in a visit of the sweep, the key/value
\* Delete is issued only as the second call, after the ServiceDeregister for
\* the visited entry returned success; the entry has left the cache only if
\* that ServiceDeregister succeeded; and when the Delete fails the entry has
\* left the cache all the same and the sweep goes on.
C15_DeregistrationOrdering ==
    lastOp.op = "visit" =>
        LET calls == lastOp.calls
            deregistered ==
                /\ calls # <<>>
                /\ calls[1].call = "ServiceDeregister"
                /\ calls[1].arg = lastOp.arg
                /\ calls[1].ok
        IN  /\ \A i \in 1..Len(calls) :
                  calls[i].call = "Delete" => (i = 2 /\ deregistered)
            /\ lastOp.arg \notin DOMAIN serviceCache => deregistered
            /\ (Len(calls) = 2 /\ ~calls[2].ok) =>
                  (lastOp.arg \notin DOMAIN serviceCache /\ status = "running")

\* the sweep deregistered B, the Delete of B's record failed, and B left the
\* cache while its record stayed in the store
C15_Witness ==
    /\ lastOp.op = "visit" /\ lastOp.arg = SvcB.ID
    /\ Len(lastOp.calls) = 2
    /\ lastOp.calls[1] = Call("ServiceDeregister", SvcB.Agent, SvcB.ID, TRUE)
    /\ lastOp.calls[2] = Call("Delete", SvcB.Agent, KeyOf(SvcB), FALSE)
    /\ SvcB.ID \notin DOMAIN serviceCache
    /\ KeyOf(SvcB) \in DOMAIN kv
    /\ <<SvcB.Agent, SvcB.ID>> \notin catalog

\* the step is the sweep's visit of the entry of identifier id
VisitOf(id) == pc = "sweep" /\ lastOp'.op = "visit" /\ lastOp'.arg = id

\* C16 - Sweep leaves marked entries alone: a visit of an entry that is marked
\* makes no remote call, leaves the catalog, the key/value store and the
\* connection pool as they are, keeps the entry in the cache with the same
\* registration and agent and only its mark reset, and changes no other entry.
C16_SweepLeavesMarkedAlone ==
    [][\A id \in IDs :
          (VisitOf(id) /\ id \in DOMAIN serviceCache /\ serviceCache[id].isRegistered) =>
              /\ lastOp'.calls = <<>>
              /\ catalog' = catalog
              /\ kv' = kv
              /\ agents' = agents
              /\ status' = status
              /\ serviceCache' = [serviceCache EXCEPT ![id].isRegistered = FALSE]
      ]_vars

\* the sweep visited A, which was marked in this cycle, and left it in the
\* cache, unmarked and registered, having deregistered B before
C16_Witness ==
    /\ pc = "sweep"
    /\ lastOp = Op("visit", SvcA.ID, <<>>)
    /\ SvcA.ID \in presented
    /\ SvcA.ID \in DOMAIN serviceCache
    /\ ~serviceCache[SvcA.ID].isRegistered
    /\ serviceCache[SvcA.ID].service = Registration(SvcA)
    /\ <<SvcA.Agent, SvcA.ID>> \in catalog
    /\ deregIssued = {SvcB.ID}
    /\ status = "running"

\* C17 - Newly registered services survive their own cycle: an entry enters
\* the cache only in a Register call for its identifier and is marked when it
\* enters; an entry that was not in the cache when the cycle began stays in
\* the cache in every step up to the next cycle, and the sweep of that cycle
\* issues no ServiceDeregister for it.
C17_NewEntriesSurviveOwnCycle ==
    [][\A id \in IDs :
          /\ (id \notin DOMAIN serviceCache /\ id \in DOMAIN serviceCache') =>
                (RegisterCalled(id) /\ serviceCache'[id].isRegistered)
          /\ (id \in DOMAIN serviceCache /\ id \notin prevCached /\ lastOp'.op # "cycle") =>
                (id \in DOMAIN serviceCache' /\ id \notin deregIssued')
      ]_vars

\* C was registered in cycle 2 and its cycle's sweep, which deregistered A,
\* returned with C in the cache
C17_Witness ==
    /\ cycle = 2 /\ pc = "done"
    /\ prevCached = {SvcA.ID}
    /\ presented = {SvcC.ID}
    /\ DOMAIN serviceCache = {SvcC.ID}
    /\ deregIssued = {SvcA.ID}
    /\ <<SvcC.Agent, SvcC.ID>> \in catalog

\* C18 - Connection pool reuse: for every address at most one client has been
\* built, the client built for an address is in the pool ever after (no
\* address leaves the pool), every usable connection in the pool is the one
\* built for its address, and every remote call of a step goes through the
\* pooled connection of its address.
C18_ConnectionPoolReuse ==
    /\ \A address \in DOMAIN built :
          /\ built[address] = 1
          /\ address \in DOMAIN agents
          /\ agents[address] = Conn
    /\ \A address \in DOMAIN agents :
          agents[address] = Conn => address \in DOMAIN built
    /\ \A i \in 1..Len(lastOp.calls) :
          /\ lastOp.calls[i].agent \in DOMAIN agents
          /\ agents[lastOp.calls[i].agent] = Conn

\* in cycle 3, after client, Register and Deregister calls used agent1 in the
\* earlier cycles, a Register call for B went through the connection of
\* agent1, the only one ever built
C18_Witness ==
    /\ cycle = 3
    /\ lastOp.op = "Register" /\ lastOp.arg = SvcB.ID /\ Len(lastOp.calls) = 2
    /\ SvcA.ID \in prevCached
    /\ built = MapPut(EmptyMap, agent1, 1)
    /\ agents = MapPut(EmptyMap, agent1, Conn)

\* C19 - Empty agent address is rejected without effect: a Register call for
\* the service with the empty agent address makes no remote call, caches
\* nothing and leaves the process running, and the pool never holds an entry
\* for the empty address nor an entry without a usable connection.
C19_EmptyAgentRejected ==
    /\ (lastOp.op = "Register" /\ lastOp.arg = SvcE.ID) =>
          /\ lastOp.calls = <<>>
          /\ SvcE.ID \notin DOMAIN serviceCache
          /\ status = "running"
    /\ <<>> \notin DOMAIN agents
    /\ \A address \in DOMAIN agents : agents[address] = Conn

\* C20 as stated - All marks cleared by a sweep: when Deregister has returned
\* every entry in the cache is unmarked, and an entry that was in the cache
\* when the cycle began is still there only if Register was called for its
\* identifier in the cycle.
C20_SurvivesOnlyIfRegistered ==
    pc = "done" =>
        \A id \in DOMAIN serviceCache :
            /\ ~serviceCache[id].isRegistered
            /\ id \in prevCached => id \in presented

\* C20 - All marks cleared by a sweep: when Deregister has returned every
\* entry in the cache is unmarked, whatever the sweep met, and an entry that
\* was in the cache when the cycle began is still there only if Register was
\* called for its identifier in the cycle or the ServiceDeregister the sweep
\* issued for it failed.
C20_AllMarksCleared ==
    pc = "done" =>
        \A id \in DOMAIN serviceCache :
            /\ ~serviceCache[id].isRegistered
            /\ id \in prevCached => (id \in presented \/ id \in deregFailed)

\* a sweep that met a marked entry (A), a stale entry whose deregistration
\* succeeded (C) and a stale entry whose deregistration failed (B) returned;
\* A and B remain, both unmarked
C20_Witness ==
    /\ pc = "done" /\ status = "running"
    /\ prevCached = {SvcA.ID, SvcB.ID, SvcC.ID}
    /\ presented = {SvcA.ID}
    /\ deregIssued = {SvcB.ID, SvcC.ID}
    /\ deregFailed = {SvcB.ID}
    /\ DOMAIN serviceCache = {SvcA.ID, SvcB.ID}
    /\ \A id \in DOMAIN serviceCache : ~serviceCache[id].isRegistered

=============================================================================
